---- MODULE Spec2Model ----
(***************************************************************************)
(* Model of src/main.py: the tracked EPUB translation pipeline             *)
(* (TranslationFlow), the quality check of GeminiCliTranslator and the     *)
(* directory mode of cli_main (selection, and the loop over the archives). *)
(*                                                                         *)
(* The file system (input archive, checkpoint file, the two working trees, *)
(* the output archive) survives a process; the fields of TranslationFlow   *)
(* and the position of cli_main do not.  A content file is named by its    *)
(* path relative to the working-tree root, written as a number 1..MaxUnits;*)
(* os.walk lists an untouched tree in one fixed order, modelled as         *)
(* ascending path number.                                                  *)
(***************************************************************************)
EXTENDS Integers, Sequences, FiniteSets, TLC

\* ---------------------------------------------------------------- bounds
MaxUnits == 2
MaxRetryLimit == 2
MaxRuns == 2
MaxLines == 10
MaxListing == 4
MaxArchives == 2

Paths == 1..MaxUnits
NoRel == 0

VARIABLES
    \* file system
    archive,        \* the input EPUB: the content files it holds
    trackFile,      \* <md5>.json: [exists, recs]
    origDir,        \* temp_epub_data_<hash>: [exists, files]
    transDir,       \* temp_epub_data_<hash>_translated: [exists, files]
    outFile,        \* output EPUB: [exists, files]
    runs,           \* invocations of cli_main so far
    \* cli_main / TranslationFlow of the running process
    pc,
    trackFlag,      \* --track
    can_retry,
    retry_limit,
    content_files,
    track,
    track_filename, \* "" or "hash.json"
    temp_dir,       \* "orig" or "trans"
    idx,            \* position of the for loop over the files
    attempt,        \* value of the retry loop's range counter
    outcome,        \* "none", "ok", "error": how the flow ended
    \* observations of the current run
    tries,          \* tries[p]: calls of translate_file on position p
    unitFailed,     \* a retry loop ended without a success
    failCause,      \* "none", "unit", "gate"
    loaded,         \* what setTrack read from disk: [exists, recs]
    staleSeen,      \* setTrack took the inconsistency branch
    svcRaised,      \* some call of translate_file raised
    rerun,          \* run started on the checkpoint the output was packaged under
    ckptPackaged,   \* the checkpoint on disk is the one outFile was packaged under
    \* GeminiCliTranslator._translate_content on its own
    qin, qout,
    \* cli_main directory mode
    bpc, listing, target_lang, epub_files,
    bopts,          \* --track and --retry of the invocation
    bi,             \* position of the loop over epub_files
    bfs,            \* per archive name, the files its flows own: [orig, trans, ckpt]
    bresults,       \* per iteration of this invocation: [name, fate, outcome]
    bhist           \* [name, lang] of every archive packaged so far

fsVars == <<archive, trackFile, origDir, transDir, outFile>>
envVars == <<runs>>
flowVars == <<pc, trackFlag, can_retry, retry_limit, content_files, track,
              track_filename, temp_dir, idx, attempt, outcome>>
obsVars == <<tries, unitFailed, failCause, loaded, staleSeen, svcRaised, rerun,
             ckptPackaged>>
qVars == <<qin, qout>>
bVars == <<bpc, listing, target_lang, epub_files, bopts, bi, bfs, bresults, bhist>>
vars == <<fsVars, envVars, flowVars, obsVars, qVars, bVars>>

\* ------------------------------------------------------------ file system
NoDir == [exists |-> FALSE, files |-> <<>>]
NoFile == [exists |-> FALSE, recs |-> <<>>]

\* content of a file: what it is, and whether it comes from the archive as it
\* is now (cur) or from an archive that has been replaced since
Original == [kind |-> "orig", cur |-> TRUE]
Translated(c) == [kind |-> "trans", cur |-> c.cur]
Short(c) == [kind |-> "short", cur |-> c.cur]
Aged(dir) ==
    [exists |-> dir.exists,
     files |-> [p \in DOMAIN dir.files |-> [dir.files[p] EXCEPT !.cur = FALSE]]]

\* zipfile.extractall into a fresh directory
ExtractedTree(a) == [exists |-> TRUE, files |-> [p \in a |-> Original]]

RECURSIVE SortedSeq(_)
SortedSeq(S) ==
    IF S = {} THEN <<>>
    ELSE LET m == CHOOSE x \in S : \A y \in S : x <= y
         IN <<m>> \o SortedSeq(S \ {m})

\* os.walk + extension filter over a working tree
GetContentFiles(dir) == IF dir.exists THEN SortedSeq(DOMAIN dir.files) ELSE <<>>

Dir(name) == IF name = "orig" THEN origDir ELSE transDir

\* open(path, 'w').write(content) inside a tree
WriteFile(dir, p, c) ==
    [exists |-> TRUE,
     files |-> [q \in (DOMAIN dir.files) \cup {p} |-> IF q = p THEN c ELSE dir.files[q]]]

\* ------------------------------------------------- GeminiCliTranslator
\* round(total_lines_input_path * 0.90): Python rounds half to even
PyRound90(s) ==
    LET q == (9 * s) \div 10
        r == (9 * s) % 10
    IN IF r < 5 THEN q
       ELSE IF r > 5 THEN q + 1
       ELSE IF q % 2 = 0 THEN q ELSE q + 1

TooFewLines(s, t) == t < PyRound90(s)

\* what one call of _translate_content does: procOk is the exit status of the
\* CLI, s the lines of the input file, t the lines of the cleaned stdout
\* (t = 0: empty stdout)
TranslateContent(procOk, s, t) ==
    IF ~procOk THEN [raised |-> TRUE, written |-> FALSE, why |-> "process"]
    ELSE IF t = 0 THEN [raised |-> TRUE, written |-> FALSE, why |-> "empty"]
    ELSE IF TooFewLines(s, t) THEN [raised |-> TRUE, written |-> TRUE, why |-> "lines"]
    ELSE [raised |-> FALSE, written |-> TRUE, why |-> "none"]

Lines == 0..MaxLines
CallResults == {TranslateContent(ok, s, t) : ok \in BOOLEAN, s \in Lines, t \in Lines}

\* ------------------------------------------------------ TranslationFlow
NewTrack(files) ==
    [i \in 1..Len(files) |->
        [file |-> files[i], relative |-> NoRel, output |-> NoRel, translated |-> FALSE]]

Inconsistent(new_content_files, loadedTrack) == Len(new_content_files) # Len(loadedTrack)

\* faulty variant: the loop over the loaded track also rewrites "relative"
UpdatePathsAndRelative(loadedTrack, new_content_files) ==
    [i \in 1..Len(loadedTrack) |->
        [loadedTrack[i] EXCEPT !.file = new_content_files[i],
                               !.relative = new_content_files[i]]]

\* faulty variant: the loaded records are replaced by new ones
UpdatePathsAsNew(loadedTrack, new_content_files) ==
    [i \in 1..Len(loadedTrack) |->
        [file |-> new_content_files[i], relative |-> NoRel, output |-> NoRel,
         translated |-> FALSE]]

UpdatePaths(loadedTrack, new_content_files) ==
    [i \in 1..Len(loadedTrack) |-> [loadedTrack[i] EXCEPT !.file = new_content_files[i]]]

\* faulty variant: on an inconsistency the new track takes over the flags of the old one
SetTrackKeepsFlags(tf, dir, files) ==
    IF tf.exists /\ ~Inconsistent(GetContentFiles(dir), tf.recs)
    THEN [track |-> UpdatePaths(tf.recs, GetContentFiles(dir)), file |-> tf]
    ELSE LET t == [i \in 1..Len(files) |->
                     [NewTrack(files)[i] EXCEPT !.translated =
                         tf.exists /\ i <= Len(tf.recs) /\ tf.recs[i].translated]]
         IN [track |-> t, file |-> [exists |-> TRUE, recs |-> t]]

\* setTrack: the track it leaves in memory and the file it leaves on disk
SetTrackResult(tf, dir, files) ==
    IF tf.exists /\ ~Inconsistent(GetContentFiles(dir), tf.recs)
    THEN [track |-> UpdatePaths(tf.recs, GetContentFiles(dir)), file |-> tf]
    ELSE [track |-> NewTrack(files), file |-> [exists |-> TRUE, recs |-> NewTrack(files)]]

\* faulty variant: any() where all() was meant
IsTrackCompleteAny(name, tf) ==
    /\ name # ""
    /\ tf.exists
    /\ (tf.recs = <<>> \/ \E i \in 1..Len(tf.recs) : tf.recs[i].translated)

\* faulty variant: the check returns True as soon as the file could be read
IsTrackCompleteUnchecked(name, tf) == name # "" /\ tf.exists

IsTrackComplete(name, tf) ==
    /\ name # ""
    /\ tf.exists
    /\ \A i \in 1..Len(tf.recs) : tf.recs[i].translated

\* faulty variant: the loop does not look at the flag
NeverTranslated(rec) == FALSE

\* file.get("translated", False) of the loop over the track
AlreadyTranslated(rec) == rec.translated

\* faulty variant: the except branch sleeps and continues whatever the flag is
RetryAlways(can) == TRUE

\* the except branch of the retry loop: TRUE = sleep and continue
RetryAfterError(can) == can

\* faulty variant: "continue" starts the same pass of the retry loop again
SameAttempt(a) == a

\* "continue": range(retry_limit) hands out the next value
NextAttempt(a) == a + 1

\* entries of setTrack in one call: the inconsistency branch removes the file
\* and calls setTrack again
RECURSIVE SetTrackEntries(_, _)
SetTrackEntries(tf, dir) ==
    IF tf.exists /\ Inconsistent(GetContentFiles(dir), tf.recs)
    THEN 1 + SetTrackEntries(NoFile, dir)
    ELSE 1

\* faulty variant: the handlers of cli_main call cleanup() after every failure
CleanupAfterEveryFailure(tr) == "clean1"

\* where cli_main goes when the call chain of a flow raised: its except and
\* finally branches call flow.cleanup() only when track == False
AfterFailure(tr) == IF tr THEN "done" ELSE "clean1"

\* ------------------------------------------------------------------ Init
IdleFlow ==
    /\ pc = "idle"
    /\ trackFlag = FALSE
    /\ can_retry = FALSE
    /\ retry_limit = 1
    /\ content_files = <<>>
    /\ track = <<>>
    /\ track_filename = ""
    /\ temp_dir = "orig"
    /\ idx = 0
    /\ attempt = 0
    /\ outcome = "none"

IdleObs ==
    /\ tries = [p \in Paths |-> 0]
    /\ unitFailed = FALSE
    /\ failCause = "none"
    /\ loaded = NoFile
    /\ staleSeen = FALSE
    /\ svcRaised = FALSE
    /\ rerun = FALSE

NoResult == [raised |-> FALSE, written |-> FALSE, why |-> "pending"]
QIdle == qin = [procOk |-> TRUE, s |-> 0, t |-> 0] /\ qout = NoResult
NoOpts == [track |-> FALSE, retry |-> FALSE]
BLoopIdle == bi = 0 /\ bfs = <<>> /\ bresults = <<>> /\ bhist = {}
BIdle ==
    /\ bpc = "off"
    /\ listing = {}
    /\ target_lang = ""
    /\ epub_files = <<>>
    /\ bopts = NoOpts
    /\ BLoopIdle

Init ==
    /\ archive \in SUBSET Paths
    /\ runs = 0
    /\ trackFile = NoFile
    /\ origDir = NoDir
    /\ transDir = NoDir
    /\ outFile = NoDir
    /\ ckptPackaged = FALSE
    /\ IdleFlow
    /\ IdleObs
    /\ QIdle
    /\ BIdle

\* --------------------------------------------------------------- cli_main
\* a new process: TranslationFlow.__init__ and, with --track, the setters
StartRun ==
    /\ pc = "idle"
    /\ runs < MaxRuns
    /\ runs' = runs + 1
    /\ \E tr \in BOOLEAN, can \in BOOLEAN, lim \in 0..MaxRetryLimit :
        /\ trackFlag' = tr
        /\ can_retry' = IF tr THEN can ELSE FALSE
        /\ retry_limit' = IF tr THEN lim ELSE 1
    /\ pc' = "start"
    /\ content_files' = <<>>
    /\ track' = <<>>
    /\ track_filename' = ""
    /\ temp_dir' = "orig"
    /\ idx' = 0
    /\ attempt' = 0
    /\ outcome' = "none"
    /\ tries' = [p \in Paths |-> 0]
    /\ unitFailed' = FALSE
    /\ failCause' = "none"
    /\ loaded' = NoFile
    /\ staleSeen' = FALSE
    /\ svcRaised' = FALSE
    /\ rerun' = FALSE
    /\ UNCHANGED <<fsVars, ckptPackaged, qVars, bVars>>

Extract ==
    /\ pc = "start"
    /\ origDir' = ExtractedTree(archive)
    /\ content_files' = GetContentFiles(ExtractedTree(archive))
    /\ pc' = "extracted"
    /\ UNCHANGED <<runs, archive, trackFile, transDir, outFile, trackFlag, can_retry,
                   retry_limit, track, track_filename, temp_dir, idx, attempt,
                   outcome, obsVars, qVars, bVars>>

SetTrack ==
    /\ pc = "extracted"
    /\ trackFlag
    /\ LET res == SetTrackResult(trackFile, origDir, content_files)
       IN /\ track' = res.track
          /\ trackFile' = res.file
          /\ loaded' = trackFile
          /\ staleSeen' = (trackFile.exists
                            /\ Inconsistent(GetContentFiles(origDir), trackFile.recs))
          /\ rerun' = (ckptPackaged /\ res.file = trackFile)
          /\ ckptPackaged' = (ckptPackaged /\ res.file = trackFile)
    /\ track_filename' = "hash.json"
    /\ pc' = "tracked"
    /\ UNCHANGED <<runs, archive, origDir, transDir, outFile, trackFlag, can_retry,
                   retry_limit, content_files, temp_dir, idx, attempt, outcome,
                   tries, unitFailed, failCause, svcRaised, qVars, bVars>>

\* ---- translate_all_from_track
TT_Begin ==
    /\ pc = "tracked"
    /\ IF track = <<>>
       THEN /\ pc' = "package"
            /\ UNCHANGED <<transDir, idx, ckptPackaged>>
       ELSE /\ transDir' = IF transDir.exists THEN transDir
                           ELSE [exists |-> TRUE, files |-> Dir(temp_dir).files]
            /\ ckptPackaged' = (ckptPackaged /\ transDir.exists)
            /\ idx' = 1
            /\ pc' = "loop"
    /\ UNCHANGED <<runs, archive, trackFile, origDir, outFile, trackFlag, can_retry,
                   retry_limit, content_files, track, track_filename, temp_dir,
                   attempt, outcome, tries, unitFailed, failCause, loaded,
                   staleSeen, svcRaised, rerun, qVars, bVars>>

\* head of "for file in self.track", up to the start of the retry loop
TT_Next ==
    /\ pc = "loop"
    /\ IF idx > Len(track)
       THEN /\ temp_dir' = "trans"
            /\ pc' = "package"
            /\ UNCHANGED <<track, idx, attempt>>
       ELSE IF AlreadyTranslated(track[idx])
       THEN /\ idx' = idx + 1
            /\ UNCHANGED <<track, temp_dir, pc, attempt>>
       ELSE /\ track' = [track EXCEPT ![idx].relative = track[idx].file,
                                      ![idx].output = track[idx].file]
            /\ attempt' = 0
            /\ pc' = "retry"
            /\ UNCHANGED <<temp_dir, idx>>
    /\ UNCHANGED <<runs, fsVars, trackFlag, can_retry, retry_limit, content_files,
                   track_filename, outcome, obsVars, qVars, bVars>>

\* one pass of the retry loop in which translate_file returns
TT_AttemptOk ==
    /\ pc = "retry"
    /\ attempt < retry_limit
    /\ \E r \in CallResults :
        /\ ~r.raised
        /\ transDir' = WriteFile(transDir, track[idx].output,
                                 Translated(origDir.files[track[idx].file]))
    /\ track' = [track EXCEPT ![idx].translated = TRUE]
    /\ tries' = [tries EXCEPT ![idx] = @ + 1]
    /\ pc' = "persist"
    /\ UNCHANGED <<runs, archive, trackFile, origDir, outFile, trackFlag, can_retry,
                   retry_limit, content_files, track_filename, temp_dir, idx,
                   attempt, outcome, unitFailed, failCause, loaded, staleSeen, svcRaised,
                   rerun, ckptPackaged, qVars, bVars>>

\* one pass of the retry loop in which translate_file raises
TT_AttemptFail ==
    /\ pc = "retry"
    /\ attempt < retry_limit
    /\ \E r \in CallResults :
        /\ r.raised
        /\ transDir' = IF r.written
                       THEN WriteFile(transDir, track[idx].output,
                                      Short(origDir.files[track[idx].file]))
                       ELSE transDir
    /\ tries' = [tries EXCEPT ![idx] = @ + 1]
    /\ svcRaised' = TRUE
    /\ IF RetryAfterError(can_retry)
       THEN /\ attempt' = NextAttempt(attempt)
            /\ UNCHANGED <<pc, outcome, unitFailed, failCause>>
       ELSE /\ pc' = AfterFailure(trackFlag)
            /\ outcome' = "error"
            /\ unitFailed' = TRUE
            /\ failCause' = "unit"
            /\ UNCHANGED attempt
    /\ UNCHANGED <<runs, archive, trackFile, origDir, outFile, trackFlag, can_retry,
                   retry_limit, content_files, track, track_filename, temp_dir,
                   idx, loaded, staleSeen, rerun, ckptPackaged, qVars, bVars>>

\* range(retry_limit) is used up: the for statement ends without a break
TT_Exhausted ==
    /\ pc = "retry"
    /\ attempt >= retry_limit
    /\ unitFailed' = TRUE
    /\ pc' = "persist"
    /\ UNCHANGED <<runs, fsVars, trackFlag, can_retry, retry_limit, content_files, track,
                   track_filename, temp_dir, idx, attempt, outcome, tries,
                   failCause, loaded, staleSeen, svcRaised, rerun, ckptPackaged, qVars, bVars>>

\* faulty variant: the write is left to the end of the run
UpdateTrackFileLater(t) == trackFile

UpdateTrackFile(t) == [exists |-> TRUE, recs |-> t]

TT_Persist ==
    /\ pc = "persist"
    /\ trackFile' = UpdateTrackFile(track)
    /\ idx' = idx + 1
    /\ pc' = "loop"
    /\ UNCHANGED <<runs, archive, origDir, transDir, outFile, trackFlag, can_retry,
                   retry_limit, content_files, track, track_filename, temp_dir,
                   attempt, outcome, obsVars, qVars, bVars>>

\* ---- translate_all
TA_Begin ==
    /\ pc = "extracted"
    /\ ~trackFlag
    /\ IF content_files = <<>>
       THEN /\ pc' = "package"
            /\ UNCHANGED <<transDir, idx, ckptPackaged>>
       ELSE /\ transDir' = [exists |-> TRUE, files |-> Dir(temp_dir).files]
            /\ ckptPackaged' = FALSE
            /\ idx' = 1
            /\ pc' = "taLoop"
    /\ UNCHANGED <<runs, archive, trackFile, origDir, outFile, trackFlag, can_retry,
                   retry_limit, content_files, track, track_filename, temp_dir,
                   attempt, outcome, tries, unitFailed, failCause, loaded,
                   staleSeen, svcRaised, rerun, qVars, bVars>>

TA_Next ==
    /\ pc = "taLoop"
    /\ IF idx > Len(content_files)
       THEN /\ temp_dir' = "trans"
            /\ pc' = "package"
            /\ UNCHANGED attempt
       ELSE /\ attempt' = 0
            /\ pc' = "taRetry"
            /\ UNCHANGED temp_dir
    /\ UNCHANGED <<runs, fsVars, trackFlag, can_retry, retry_limit, content_files, track,
                   track_filename, idx, outcome, obsVars, qVars, bVars>>

\* one pass of the retry loop of translate_all, or its end
TA_Attempt ==
    /\ pc = "taRetry"
    /\ IF attempt >= retry_limit
       THEN /\ unitFailed' = TRUE
            /\ idx' = idx + 1
            /\ pc' = "taLoop"
            /\ UNCHANGED <<transDir, tries, attempt, outcome, failCause, svcRaised>>
       ELSE \E r \in CallResults :
            /\ tries' = [tries EXCEPT ![idx] = @ + 1]
            /\ svcRaised' = (svcRaised \/ r.raised)
            /\ transDir' = IF ~r.written THEN transDir
                           ELSE WriteFile(transDir, content_files[idx],
                                    IF r.raised
                                    THEN Short(origDir.files[content_files[idx]])
                                    ELSE Translated(origDir.files[content_files[idx]]))
            /\ IF ~r.raised
               THEN /\ idx' = idx + 1
                    /\ pc' = "taLoop"
                    /\ UNCHANGED <<attempt, outcome, unitFailed, failCause>>
               ELSE IF RetryAfterError(can_retry)
               THEN /\ attempt' = NextAttempt(attempt)
                    /\ UNCHANGED <<idx, pc, outcome, unitFailed, failCause>>
               ELSE /\ pc' = AfterFailure(trackFlag)
                    /\ outcome' = "error"
                    /\ unitFailed' = TRUE
                    /\ failCause' = "unit"
                    /\ UNCHANGED <<idx, attempt>>
    /\ UNCHANGED <<runs, archive, trackFile, origDir, outFile, trackFlag, can_retry,
                   retry_limit, content_files, track, track_filename, temp_dir,
                   loaded, staleSeen, rerun, ckptPackaged, qVars, bVars>>

\* ---- package
PackagedArchive(dir) == [exists |-> TRUE, files |-> dir.files]

Package ==
    /\ pc = "package"
    /\ IF IsTrackComplete(track_filename, trackFile)
       THEN /\ outFile' = PackagedArchive(Dir(temp_dir))
            /\ ckptPackaged' = TRUE
            /\ outcome' = "ok"
            /\ pc' = "clean1"
            /\ UNCHANGED failCause
       ELSE /\ outcome' = "error"
            /\ failCause' = "gate"
            /\ pc' = AfterFailure(trackFlag)
            /\ UNCHANGED <<outFile, ckptPackaged>>
    /\ UNCHANGED <<runs, archive, trackFile, origDir, transDir, trackFlag, can_retry,
                   retry_limit, content_files, track, track_filename, temp_dir,
                   idx, attempt, tries, unitFailed, loaded, staleSeen, svcRaised, rerun,
                   qVars, bVars>>

\* ---- cleanup, one statement at a time
CleanupTemp ==
    /\ pc = "clean1"
    /\ IF temp_dir = "orig"
       THEN origDir' = NoDir /\ UNCHANGED transDir
       ELSE transDir' = NoDir /\ UNCHANGED origDir
    /\ pc' = "clean2"
    /\ UNCHANGED <<runs, archive, trackFile, outFile, trackFlag, can_retry, retry_limit,
                   content_files, track, track_filename, temp_dir, idx, attempt,
                   outcome, obsVars, qVars, bVars>>

CleanupTrack ==
    /\ pc = "clean2"
    /\ IF track_filename # "" /\ trackFile.exists
       THEN trackFile' = NoFile /\ ckptPackaged' = FALSE
       ELSE UNCHANGED <<trackFile, ckptPackaged>>
    /\ pc' = "clean3"
    /\ UNCHANGED <<runs, archive, origDir, transDir, outFile, trackFlag, can_retry,
                   retry_limit, content_files, track, track_filename, temp_dir,
                   idx, attempt, outcome, tries, unitFailed, failCause, loaded,
                   staleSeen, svcRaised, rerun, qVars, bVars>>

CleanupOriginal ==
    /\ pc = "clean3"
    /\ origDir' = IF temp_dir # "orig" THEN NoDir ELSE origDir
    /\ pc' = "done"
    /\ UNCHANGED <<runs, archive, trackFile, transDir, outFile, trackFlag, can_retry,
                   retry_limit, content_files, track, track_filename, temp_dir,
                   idx, attempt, outcome, obsVars, qVars, bVars>>

\* ---- the process goes away
Running == pc \notin {"idle", "done"}

ForgetFlow ==
    /\ pc' = "idle"
    /\ trackFlag' = FALSE
    /\ can_retry' = FALSE
    /\ retry_limit' = 1
    /\ content_files' = <<>>
    /\ track' = <<>>
    /\ track_filename' = ""
    /\ temp_dir' = "orig"
    /\ idx' = 0
    /\ attempt' = 0
    /\ outcome' = "none"
    /\ tries' = [p \in Paths |-> 0]
    /\ unitFailed' = FALSE
    /\ failCause' = "none"
    /\ loaded' = NoFile
    /\ staleSeen' = FALSE
    /\ svcRaised' = FALSE
    /\ rerun' = FALSE

\* the process is killed between two steps
Crash ==
    /\ Running
    /\ ForgetFlow
    /\ UNCHANGED <<runs, fsVars, ckptPackaged, qVars, bVars>>

\* cli_main returns
Exit ==
    /\ pc = "done"
    /\ ForgetFlow
    /\ UNCHANGED <<runs, fsVars, ckptPackaged, qVars, bVars>>

\* between two invocations the input archive is replaced
ChangeArchive ==
    /\ pc = "idle"
    /\ archive' \in SUBSET Paths
    /\ origDir' = Aged(origDir)
    /\ transDir' = Aged(transDir)
    /\ outFile' = Aged(outFile)
    /\ ckptPackaged' = FALSE
    /\ UNCHANGED <<trackFile, runs, flowVars, tries,
                   unitFailed, failCause, loaded, staleSeen, svcRaised, rerun, qVars, bVars>>

Next ==
    \/ StartRun
    \/ Extract
    \/ SetTrack
    \/ TT_Begin
    \/ TT_Next
    \/ TT_AttemptOk
    \/ TT_AttemptFail
    \/ TT_Exhausted
    \/ TT_Persist
    \/ TA_Begin
    \/ TA_Next
    \/ TA_Attempt
    \/ Package
    \/ CleanupTemp
    \/ CleanupTrack
    \/ CleanupOriginal
    \/ Crash
    \/ Exit
    \/ ChangeArchive

Spec == Init /\ [][Next]_vars

\* =====================================================================
\* The pipeline of processes that are not killed: every statement of a flow
\* returns (every call of the translator returns, every sleep ends), so a
\* started flow goes on to its next statement.
FlowStep ==
    \/ Extract
    \/ SetTrack
    \/ TT_Begin
    \/ TT_Next
    \/ TT_AttemptOk
    \/ TT_AttemptFail
    \/ TT_Exhausted
    \/ TT_Persist
    \/ TA_Begin
    \/ TA_Next
    \/ TA_Attempt
    \/ Package
    \/ CleanupTemp
    \/ CleanupTrack
    \/ CleanupOriginal

NextUnkilled ==
    \/ StartRun
    \/ FlowStep
    \/ Exit
    \/ ChangeArchive

SpecTermination == Init /\ [][NextUnkilled]_vars /\ WF_vars(FlowStep)

\* =====================================================================
\* GeminiCliTranslator._translate_content on its own: one call on an input
\* file of qin.s lines whose CLI run ends with status qin.procOk and a
\* cleaned stdout of qin.t lines
FlowAtRest ==
    /\ archive = {}
    /\ runs = 0
    /\ trackFile = NoFile
    /\ origDir = NoDir
    /\ transDir = NoDir
    /\ outFile = NoDir
    /\ ckptPackaged = FALSE
    /\ IdleFlow
    /\ IdleObs

QInit ==
    /\ FlowAtRest
    /\ BIdle
    /\ qin \in [procOk : BOOLEAN, s : Lines, t : Lines]
    /\ qout = NoResult

TranslateFile ==
    /\ qout = NoResult
    /\ qout' = TranslateContent(qin.procOk, qin.s, qin.t)
    /\ UNCHANGED <<runs, qin, fsVars, flowVars, obsVars, bVars>>

QNext == TranslateFile

SpecQuality == QInit /\ [][QNext]_vars

\* =====================================================================
\* cli_main, directory mode.  A file name is a sequence of pieces; each piece
\* stands for the characters between its quotes, and no piece is the start
\* of, or a run of, other pieces, so two names are equal exactly when their
\* piece sequences are.
Marker == "[TRANSLATED]"

\* str.lower on a piece
Lower(tok) ==
    CASE tok = ".EPUB" -> ".epub"
      [] tok = "[TRANSLATED]" -> "[translated]"
      [] tok = "[PT-BR]" -> "[pt-br]"
      [] tok = "[EN]" -> "[en]"
      [] OTHER -> tok

\* str.upper on a language tag
Upper(lang) ==
    CASE lang = "pt-br" -> "PT-BR"
      [] lang = "Pt-Br" -> "PT-BR"
      [] lang = "en" -> "EN"
      [] OTHER -> lang

\* the piece "[" + tag + "]"
Bracketed(tag) ==
    CASE tag = "PT-BR" -> "[PT-BR]"
      [] tag = "EN" -> "[EN]"
      [] tag = "pt-br" -> "[pt-br]"
      [] tag = "en" -> "[en]"
      [] OTHER -> "[?]"

Langs == {"pt-br", "Pt-Br", "en"}

Stems == {<<"book", ".epub">>, <<"book", ".EPUB">>, <<"book", ".txt">>, <<"novel", ".epub">>}
NameUniverse ==
    Stems
    \cup {<<Marker, "[PT-BR]">> \o n : n \in Stems}
    \cup {<<Marker, "[EN]", "book", ".epub">>,
          <<Marker, "[pt-br]", "book", ".epub">>,
          <<"[translated]", "[PT-BR]", "book", ".epub">>,
          <<Marker, "book", ".epub">>}

\* faulty variant: the tag is used as typed
PrefixAsTyped(lang) == <<Marker, Bracketed(lang)>>

\* f"[TRANSLATED][{target_lang.upper()}]"
Prefix(lang) == <<Marker, Bracketed(Upper(lang))>>

\* filename.lower().endswith('.epub')
EndsWithEpub(filename) == Len(filename) > 0 /\ Lower(filename[Len(filename)]) = ".epub"

\* filename.startswith('[TRANSLATED]')
StartsWithMarker(filename) == Len(filename) > 0 /\ filename[1] = Marker

\* the body of "for filename in all_files_set": TRUE = appended to epub_files
NeedsTranslation(filename, all_files_set, lang) ==
    /\ EndsWithEpub(filename)
    /\ ~StartsWithMarker(filename)
    /\ (Prefix(lang) \o filename) \notin all_files_set

\* the lists a loop over a set can build: every order of its members
OrdersOf(S) ==
    {q \in [1..Cardinality(S) -> S] : \A i, j \in 1..Cardinality(S) : q[i] = q[j] => i = j}

BInit ==
    /\ FlowAtRest
    /\ QIdle
    /\ bpc = "listed"
    /\ listing \in {d \in SUBSET NameUniverse : Cardinality(d) <= MaxListing}
    /\ target_lang \in Langs
    /\ epub_files = <<>>
    /\ bopts = NoOpts
    /\ BLoopIdle

SelectEpubFiles ==
    /\ bpc = "listed"
    /\ epub_files' \in OrdersOf({f \in listing : NeedsTranslation(f, listing, target_lang)})
    /\ bpc' = "selected"
    /\ UNCHANGED <<runs, listing, target_lang, bopts, bi, bfs, bresults, bhist,
                   fsVars, flowVars, obsVars, qVars>>

BNext == SelectEpubFiles

SpecBatch == BInit /\ [][BNext]_vars

\* =====================================================================
\* cli_main, directory mode, with the loop over the selected archives and a
\* later invocation on the directory the loop left

\* the command lines: without --track the retry setters are not called
Options == {o \in [track : BOOLEAN, retry : BOOLEAN] : o.retry => o.track}

DInit ==
    /\ FlowAtRest
    /\ QIdle
    /\ bpc = "listed"
    /\ listing \in {d \in SUBSET NameUniverse : Cardinality(d) <= MaxArchives}
    /\ target_lang \in Langs
    /\ epub_files = <<>>
    /\ bopts \in Options
    /\ BLoopIdle

\* "if not epub_files: return", else the loop starts
BatchBegin ==
    /\ bpc = "selected"
    /\ IF epub_files = <<>>
       THEN bpc' = "finished" /\ UNCHANGED bi
       ELSE bpc' = "loop" /\ bi' = 1
    /\ UNCHANGED <<runs, listing, target_lang, epub_files, bopts, bfs, bresults, bhist,
                   fsVars, flowVars, obsVars, qVars>>

\* ---- one archive of the directory.  Every archive of the directory holds
\* one content file; its working trees and its checkpoint are named by the
\* hash of its path, so each archive name has files of its own.
BatchContent == <<1>>
NoFiles == [orig |-> FALSE, trans |-> FALSE, ckpt |-> NoFile]
FilesOf(name) == IF name \in DOMAIN bfs THEN bfs[name] ELSE NoFiles

\* how the collaborators of one flow behave: every call succeeds, ZipFile
\* raises in extract(), json.load raises in setTrack(), every call of
\* translate_file raises
Fates == {"ok", "extract", "track", "fail"}

\* cleanup() of a flow whose temp_dir is temp and whose track_filename is name
CleanupFiles(f, temp, name) ==
    [orig |-> FALSE,
     trans |-> IF temp = "trans" THEN FALSE ELSE f.trans,
     ckpt |-> IF name # "" /\ f.ckpt.exists THEN NoFile ELSE f.ckpt]

\* the except branch of the loop
FailedFlow(tr, f, temp, name) ==
    [files |-> IF AfterFailure(tr) = "clean1" THEN CleanupFiles(f, temp, name) ELSE f,
     outcome |-> "error"]

\* the try block of the loop on a new TranslationFlow (temp_dir the original
\* tree, track_filename ""), and the except branch when it raises
RunFlow(tr, can, fate, f) ==
    LET \* extract()
        f1 == [f EXCEPT !.orig = TRUE]
        \* setTrack()
        name == IF tr THEN "hash.json" ELSE ""
        res == SetTrackResult(f.ckpt, ExtractedTree({BatchContent[1]}), BatchContent)
        f2 == IF tr THEN [f1 EXCEPT !.ckpt = res.file] ELSE f1
        \* translate_all_from_track() / translate_all()
        skip == tr /\ AlreadyTranslated(res.track[1])
        f3 == [f2 EXCEPT !.trans = TRUE]
        raised == ~skip /\ fate = "fail" /\ ~RetryAfterError(can)
        t3 == IF skip THEN res.track
              ELSE [res.track EXCEPT ![1].relative = res.track[1].file,
                                     ![1].output = res.track[1].file,
                                     ![1].translated = (fate # "fail")]
        f4 == IF tr /\ ~skip THEN [f3 EXCEPT !.ckpt = UpdateTrackFile(t3)] ELSE f3
    IN IF fate = "extract" THEN FailedFlow(tr, f1, "orig", "")
       ELSE IF fate = "track" THEN FailedFlow(tr, f1, "orig", name)
       ELSE IF raised THEN FailedFlow(tr, f3, "orig", name)
       ELSE IF ~IsTrackComplete(name, f4.ckpt) THEN FailedFlow(tr, f4, "trans", name)
       ELSE [files |-> CleanupFiles(f4, "trans", name), outcome |-> "ok"]

\* faulty variant: the output is named with the tag as typed
OutputFilenameAsTyped(lang, epub_file) == PrefixAsTyped(lang) \o epub_file

\* f"[TRANSLATED][{target_lang.upper()}]{epub_file}"
OutputFilename(lang, epub_file) == Prefix(lang) \o epub_file

\* faulty variant: an exception of one archive ends the loop
StopBatch(i, n) == n + 1

\* the loop goes on to the next archive after the except branch
AfterArchiveError(i, n) == i + 1

\* one iteration of "for i, epub_file in enumerate(epub_files)"
ProcessArchive ==
    /\ bpc = "loop"
    /\ bi <= Len(epub_files)
    /\ \E fate \in Fates :
        /\ fate = "track" => (bopts.track /\ FilesOf(epub_files[bi]).ckpt.exists)
        /\ LET epub_file == epub_files[bi]
               r == RunFlow(bopts.track, bopts.retry, fate, FilesOf(epub_file))
               next == IF r.outcome = "ok" THEN bi + 1
                       ELSE AfterArchiveError(bi, Len(epub_files))
           IN /\ bfs' = [n \in DOMAIN bfs \cup {epub_file} |->
                           IF n = epub_file THEN r.files ELSE bfs[n]]
              /\ listing' = IF r.outcome = "ok"
                            THEN listing \cup {OutputFilename(target_lang, epub_file)}
                            ELSE listing
              /\ bhist' = IF r.outcome = "ok"
                          THEN bhist \cup {[name |-> epub_file, lang |-> target_lang]}
                          ELSE bhist
              /\ bresults' = Append(bresults,
                                [name |-> epub_file, fate |-> fate, outcome |-> r.outcome])
              /\ bi' = next
              /\ bpc' = IF next > Len(epub_files) THEN "finished" ELSE "loop"
    /\ UNCHANGED <<runs, target_lang, epub_files, bopts,
                   fsVars, flowVars, obsVars, qVars>>

\* cli_main returns and is started again on the same directory, with the
\* same --track and --retry and any target language
ListDirectory ==
    /\ bpc = "finished"
    /\ runs + 1 < MaxRuns
    /\ runs' = runs + 1
    /\ target_lang' \in Langs
    /\ bopts' = bopts
    /\ epub_files' = <<>>
    /\ bresults' = <<>>
    /\ bi' = 0
    /\ bpc' = "listed"
    /\ UNCHANGED <<listing, bfs, bhist, fsVars, flowVars, obsVars, qVars>>

DNext ==
    \/ SelectEpubFiles
    \/ BatchBegin
    \/ ProcessArchive
    \/ ListDirectory

SpecDirectory == DInit /\ [][DNext]_vars

\* =====================================================================
\* Properties of the pipeline (specification Spec)

AllTranslated(recs) == \A i \in 1..Len(recs) : recs[i].translated
DoneIn(recs) == {i \in 1..Len(recs) : recs[i].translated}

\* C1 - completeness gate.  In a run that set a checkpoint, package() ends
\* either by writing the output archive from the working tree, exactly when
\* every record of the checkpoint on disk is translated, or by raising with
\* the output archive untouched, exactly when some record is not; and no step
\* of any run writes the output archive while a record on disk is untranslated.
C1_CompletenessGate ==
    [][ /\ (pc = "package" /\ track_filename # "" /\ trackFile.exists /\ pc' # "idle")
            => IF AllTranslated(trackFile.recs)
               THEN /\ outcome' = "ok"
                    /\ outFile' = [exists |-> TRUE, files |-> Dir(temp_dir).files]
               ELSE /\ outcome' = "error"
                    /\ failCause' = "gate"
                    /\ outFile' = outFile
        /\ (pc # "idle" /\ outFile' # outFile)
            => (pc = "package" /\ trackFile.exists /\ AllTranslated(trackFile.recs)) ]_vars

C1_GateRefuses ==
    /\ pc = "done"
    /\ outcome = "error"
    /\ failCause = "gate"
    /\ trackFile.exists
    /\ ~AllTranslated(trackFile.recs)
    /\ DoneIn(trackFile.recs) # {}

\* the run resumed a checkpoint: setTrack loaded it and kept it
Resumed == trackFlag /\ loaded.exists /\ ~staleSeen

\* what C2 asserts once translate_all_from_track has returned
ResumeDone ==
    /\ Len(track) = Len(loaded.recs)
    /\ \A i \in 1..Len(track) :
        /\ tries[i] = IF loaded.recs[i].translated THEN 0 ELSE 1
        /\ track[i].translated
    /\ trackFile.exists
    /\ Len(trackFile.recs) = Len(track)
    /\ AllTranslated(trackFile.recs)

\* C2 as stated - resume correctness: a run that resumed a checkpoint of N
\* records, K of them translated, and whose calls of the service all succeed,
\* calls the service once on each of the N-K untranslated records, on no
\* other, and leaves all N translated in memory and on disk.
C2_ResumeAsStated ==
    (pc = "package" /\ Resumed /\ ~svcRaised) => ResumeDone

\* C2 amended: the same for a retry limit of at least 1.
C2_Resume ==
    (pc = "package" /\ Resumed /\ ~svcRaised /\ retry_limit >= 1) => ResumeDone

C2_ResumedHalfDone ==
    /\ pc = "package"
    /\ Resumed
    /\ ~svcRaised
    /\ retry_limit >= 1
    /\ DoneIn(loaded.recs) # {}
    /\ DoneIn(loaded.recs) # 1..Len(loaded.recs)

\* a retry loop of the current run has just ended without a success
LoopEndedUnsuccessful ==
    \/ pc = "persist" /\ ~track[idx].translated
    \/ failCause = "unit"

\* C3 - retry bound: when the retry loop of a unit ends without a success
\* (every call failed), translate_file was called exactly retry_limit times on
\* that unit and the loop ended by raising.  Stated here for the runs with
\* retries enabled and a limit of at least 1, a case the claim covers.
C3_RetryBound ==
    (can_retry /\ retry_limit >= 1 /\ LoopEndedUnsuccessful)
        => (tries[idx] = retry_limit /\ outcome = "error" /\ failCause = "unit")

\* C4 - reconciliation safety: after setTrack found a checkpoint whose record
\* count differs from the count of the extracted content files, the track in
\* memory and on disk has one record per extracted content file, in order,
\* every record untranslated.
C4_StaleRebuilt ==
    (pc = "tracked" /\ staleSeen) =>
        LET fresh == GetContentFiles(origDir)
        IN /\ trackFile.exists
           /\ trackFile.recs = track
           /\ Len(track) = Len(fresh)
           /\ \A i \in 1..Len(track) :
                /\ track[i].file = fresh[i]
                /\ ~track[i].translated

C4_StaleWithFlags ==
    /\ pc = "tracked"
    /\ staleSeen
    /\ track # <<>>
    /\ 1 \in DoneIn(loaded.recs)

\* C5 - fail fast: once a unit was attempted and left untranslated by its
\* retry loop, translate_file is called on no later record of the run.
C5_FailFast ==
    trackFlag =>
        \A i, j \in 1..Len(track) :
            (i < j /\ i < idx /\ tries[i] >= 1 /\ ~track[i].translated) => tries[j] = 0

\* C6 - a unit's failure is fatal for its archive: a run in which a retry loop
\* ended without a success never writes the output archive, and when it has
\* ended it has ended in an error.
C6_UnitFailureFatal ==
    unitFailed => (outcome # "ok" /\ (pc = "done" => outcome = "error"))

C6_FailedAfterExhaustion ==
    /\ pc = "done"
    /\ unitFailed
    /\ can_retry
    /\ outcome = "error"
    /\ failCause = "gate"
    /\ DoneIn(track) # {}

\* C8 - persist after every unit: while a tracked run is between setTrack and
\* package, the checkpoint on disk has the records of the track in memory, the
\* records translated on disk are translated in memory, and the only record
\* that can be translated in memory and not yet on disk is the one the loop is
\* at, between its success and updateTrackFile; and a run that resumed a
\* checkpoint never calls the service on a record it loaded as translated.
C8_PersistEveryUnit ==
    /\ (trackFlag /\ pc \in {"tracked", "loop", "retry", "persist", "package"}) =>
        /\ trackFile.exists
        /\ Len(trackFile.recs) = Len(track)
        /\ DoneIn(trackFile.recs) \subseteq DoneIn(track)
        /\ (DoneIn(track) \ DoneIn(trackFile.recs)) \subseteq {idx}
        /\ (pc # "persist" => DoneIn(track) = DoneIn(trackFile.recs))
    /\ Resumed => \A i \in DoneIn(loaded.recs) : tries[i] = 0

C8_InFlightAfterResume ==
    /\ Resumed
    /\ pc = "persist"
    /\ DoneIn(loaded.recs) # {}
    /\ DoneIn(track) \ DoneIn(trackFile.recs) = {idx}

\* C9 - idempotent re-run: a tracked run on the untouched archive that starts
\* from the fully translated checkpoint under which the output archive was
\* packaged makes no call of the service and packages an archive with the
\* content the output archive already has.
C9_IdempotentRerun ==
    [][ (rerun /\ pc = "package" /\ pc' # "idle")
            => /\ outcome' = "ok"
               /\ outFile' = outFile
               /\ \A p \in Paths : tries[p] = 0 ]_vars

\* C13 - checkpoint preserved on failure: when a tracked run has ended in a
\* fatal error, the checkpoint file is on disk and its records carry the
\* translated flags the run holds in memory, those it loaded and those it
\* persisted before the failure.
C13_CheckpointPreserved ==
    (trackFlag /\ outcome = "error") =>
        /\ pc = "done"
        /\ trackFile.exists
        /\ Len(trackFile.recs) = Len(track)
        /\ DoneIn(trackFile.recs) = DoneIn(track)
        /\ (Resumed => DoneIn(loaded.recs) \subseteq DoneIn(trackFile.recs))

C13_FailedWithProgress ==
    /\ trackFlag
    /\ pc = "done"
    /\ outcome = "error"
    /\ failCause = "unit"
    /\ tries[1] = 1
    /\ DoneIn(trackFile.recs) = {1}

\* C14 - working-tree cleanup on every exit path: when a run has ended, in
\* success or in a fatal error, with or without tracking, neither working tree
\* is left on disk.
C14_TreesRemoved ==
    pc = "done" => (~origDir.exists /\ ~transDir.exists)

\* C15 - checkpoint deletion policy: a step removes the checkpoint file only
\* in the cleanup of a run that ended in success and was started without
\* tracking.
C15_DeletionPolicy ==
    [][ (trackFile.exists /\ ~trackFile'.exists)
            => (pc = "clean2" /\ outcome = "ok" /\ ~trackFlag) ]_vars

\* C16 - reconcile frame condition: after setTrack loaded a checkpoint with as
\* many records as the extracted tree has content files, the track has the
\* records of the loaded checkpoint in their order, record i with the i-th
\* listed path as its file and with the translated flag, relative path and
\* output path it was loaded with, and the checkpoint file is the one loaded.
C16_ReconcileFrame ==
    (pc = "tracked" /\ Resumed) =>
        LET fresh == GetContentFiles(origDir)
        IN /\ Len(track) = Len(loaded.recs)
           /\ \A i \in 1..Len(track) :
                /\ track[i].file = fresh[i]
                /\ track[i].translated = loaded.recs[i].translated
                /\ track[i].relative = loaded.recs[i].relative
                /\ track[i].output = loaded.recs[i].output
           /\ trackFile = loaded

C16_PathRewritten ==
    /\ pc = "tracked"
    /\ Resumed
    /\ \E i \in 1..Len(track) :
        /\ track[i].file # loaded.recs[i].file
        /\ track[i].translated
        /\ track[i].relative = loaded.recs[i].file

\* C17 - checkpoint identity invariant: whenever the checkpoint file exists,
\* the relative paths of its records are pairwise distinct and its records are
\* in the order in which the content files are listed.
C17_IdentityInvariant ==
    trackFile.exists =>
        /\ \A i, j \in 1..Len(trackFile.recs) :
            i # j => trackFile.recs[i].relative # trackFile.recs[j].relative
        /\ \A i, j \in 1..Len(trackFile.recs) :
            i < j => trackFile.recs[i].file < trackFile.recs[j].file

\* a translated record of the first list is translated in the second
KeepsTranslated(before, after) ==
    \A i \in 1..Len(before) :
        (before[i].translated /\ i <= Len(after)) => after[i].translated

\* setTrack is about to find the checkpoint on disk inconsistent
StaleAtSetTrack ==
    /\ pc = "extracted"
    /\ trackFile.exists
    /\ Inconsistent(GetContentFiles(origDir), trackFile.recs)

\* what C18 asserts of one step of a run
CompletionKept ==
    /\ KeepsTranslated(track, track')
    /\ KeepsTranslated(trackFile.recs, trackFile'.recs)
    /\ (pc = "extracted" /\ pc' = "tracked") => KeepsTranslated(trackFile.recs, track')

\* C18 as stated - monotonic completion: no step of a run takes a translated
\* flag that is TRUE, in the track in memory or in the checkpoint on disk,
\* back to FALSE; the track setTrack leaves keeps the flags that were on disk.
C18_MonotonicAsStated ==
    [][ (pc # "idle" /\ pc' # "idle") => CompletionKept ]_vars

\* C18 amended: the same for every step but the one in which setTrack finds
\* the checkpoint inconsistent and replaces it.
C18_Monotonic ==
    [][ (pc # "idle" /\ pc' # "idle" /\ ~StaleAtSetTrack) => CompletionKept ]_vars

C18_GrewAfterResume ==
    /\ pc = "loop"
    /\ Resumed
    /\ DoneIn(loaded.recs) = {1}
    /\ DoneIn(trackFile.recs) = {1, 2}
    /\ tries[2] = 1

\* C19 - no retries unless enabled: in a run with the retry flag off and a
\* limit of at least 1, no unit is attempted more than once and the retry loop
\* never sleeps and continues; once a call has raised, the run has ended in
\* the error of that unit and no later unit has been attempted.
C19_NoRetryUnlessEnabled ==
    (pc # "idle" /\ ~can_retry /\ retry_limit >= 1) =>
        /\ \A p \in Paths : tries[p] <= 1
        /\ attempt = 0
        /\ svcRaised =>
            /\ outcome = "error"
            /\ failCause = "unit"
            /\ pc \in {"done", "clean1", "clean2", "clean3"}
            /\ tries[idx] = 1
            /\ \A p \in Paths : p > idx => tries[p] = 0

C19_SecondUnitRaised ==
    /\ pc = "done"
    /\ ~can_retry
    /\ retry_limit = MaxRetryLimit
    /\ svcRaised
    /\ idx = 2
    /\ tries[1] = 1
    /\ tries[2] = 1

\* C20 - non-tracking mode reaches packaging: when package() has returned or
\* raised in a run without tracking in which no call of translate_file raised,
\* the run has ended in success and the output archive is on disk.
C20_UntrackedPackages ==
    (~trackFlag /\ pc \in {"clean1", "clean2", "clean3", "done"} /\ ~svcRaised)
        => (outcome = "ok" /\ outFile.exists)

\* no file of the tree comes from an archive that has been replaced since
FromCurrentArchive(dir) == \A p \in DOMAIN dir.files : dir.files[p].cur

\* C21 - completed implies transformed output present: after any runs and
\* crashes on an archive that was not replaced, when package() is about to
\* write the output archive of a tracked run, the working tree it packages
\* holds, for every record the checkpoint on disk marks translated, the file
\* of that record with the translation of its content, not the copy of the
\* original.
C21_CompletedHasOutput ==
    (/\ pc = "package"
     /\ trackFlag
     /\ IsTrackComplete(track_filename, trackFile)
     /\ FromCurrentArchive(Dir(temp_dir))) =>
        \A i \in 1..Len(trackFile.recs) :
            trackFile.recs[i].translated =>
                /\ track[i].file \in DOMAIN Dir(temp_dir).files
                /\ Dir(temp_dir).files[track[i].file].kind = "trans"

\* C22 - transformed tree matches the current extraction: when package() is
\* about to write the output archive of a tracked run in which setTrack found
\* the checkpoint inconsistent and replaced it, the working tree it packages
\* has the files of the current extraction and no other, each of them the
\* current file or its translation.
C22_TreeMatchesExtraction ==
    (/\ pc = "package"
     /\ trackFlag
     /\ staleSeen
     /\ temp_dir = "trans"
     /\ IsTrackComplete(track_filename, trackFile)) =>
        /\ DOMAIN transDir.files = DOMAIN origDir.files
        /\ FromCurrentArchive(transDir)

\* =====================================================================
\* Properties of the pipeline of processes that are not killed
\* (specification SpecTermination)

\* a flow has ended: failed, or packaged and cleaned up
RunEnded ==
    /\ pc = "done"
    /\ \/ outcome = "error"
       \/ outcome = "ok" /\ outFile.exists /\ ~origDir.exists

\* C23 - termination: every started run ends, either in an error or packaged
\* with cleanup() done; a call of setTrack enters setTrack at most twice (the
\* second entry, after the inconsistency branch, creates the checkpoint); and
\* no unit is attempted more often than retry_limit times.
C23_Termination ==
    /\ [](pc = "extracted" => SetTrackEntries(trackFile, origDir) <= 2)
    /\ [](pc # "idle" => \A p \in Paths : tries[p] <= retry_limit)
    /\ (pc = "start") ~> RunEnded

C23_EndedAfterStaleAndRetries ==
    /\ pc = "done"
    /\ staleSeen
    /\ can_retry
    /\ retry_limit = MaxRetryLimit
    /\ tries[1] = MaxRetryLimit
    /\ outcome = "error"

\* =====================================================================
\* Properties of _translate_content (specification SpecQuality)

\* C7 - quality heuristic: a call whose CLI run succeeded with a non-empty
\* output raises exactly when the output has fewer than 90% of the lines of
\* the source (10*t < 9*s).
C7_QualityHeuristic ==
    (qout # NoResult /\ qin.procOk /\ qin.t >= 1)
        => (qout.raised <=> 10 * qin.t < 9 * qin.s)

\* =====================================================================
\* Properties of the directory mode (specification SpecBatch)

BookEpub == <<"book", ".epub">>
TranslatedBookEpub == <<"[TRANSLATED]", "[PT-BR]", "book", ".epub">>

\* the container extension, in either case
HasContainerExtension(f) == Len(f) > 0 /\ f[Len(f)] \in {".epub", ".EPUB"}
CarriesMarker(f) == Len(f) > 0 /\ f[1] = "[TRANSLATED]"
\* '[TRANSLATED][' + upper(T) + ']' + f
OutputNameOf(T, f) ==
    <<"[TRANSLATED]", IF T \in {"pt-br", "Pt-Br"} THEN "[PT-BR]" ELSE "[EN]">> \o f

SelectedSet == {epub_files[i] : i \in 1..Len(epub_files)}

\* C10 - batch eligibility: the selection holds a name of the listing exactly
\* when the name has the container extension, does not start with the marker,
\* and the listing has no file named marker + [upper(T)] + name; each selected
\* name is selected once; with book.epub and [TRANSLATED][PT-BR]book.epub and
\* target pt-br nothing is selected, with book.epub alone book.epub is.
C10_Eligibility ==
    bpc = "selected" =>
        /\ \A f \in listing :
            f \in SelectedSet <=>
                /\ HasContainerExtension(f)
                /\ ~CarriesMarker(f)
                /\ OutputNameOf(target_lang, f) \notin listing
        /\ SelectedSet \subseteq listing
        /\ Cardinality(SelectedSet) = Len(epub_files)
        /\ (target_lang = "pt-br" /\ listing = {BookEpub, TranslatedBookEpub})
            => epub_files = <<>>
        /\ (target_lang = "pt-br" /\ listing = {BookEpub})
            => epub_files = <<BookEpub>>

C10_TranslatedSiblingSkips ==
    /\ bpc = "selected"
    /\ target_lang = "pt-br"
    /\ listing = {BookEpub, TranslatedBookEpub}
    /\ epub_files = <<>>

\* =====================================================================
\* Properties of the directory-mode loop (specification SpecDirectory)

\* C11 - batch idempotence across invocations: the output of every archive
\* packaged so far is in the directory under marker + [upper(T)] + name, T the
\* target of the invocation that packaged it; and a selection made by a later
\* invocation holds no archive packaged earlier for the same target and no
\* file an earlier run wrote as its output.
C11_BatchIdempotence ==
    /\ \A h \in bhist : OutputNameOf(h.lang, h.name) \in listing
    /\ bpc = "selected" =>
        \A f \in SelectedSet :
            /\ [name |-> f, lang |-> target_lang] \notin bhist
            /\ \A h \in bhist : f # OutputNameOf(h.lang, h.name)

C11_SecondBatchSkipsDone ==
    /\ bpc = "selected"
    /\ runs = 1
    /\ [name |-> BookEpub, lang |-> target_lang] \in bhist
    /\ epub_files = << <<"novel", ".epub">> >>

\* what C12 asserts of the results of the loop when it is at position pos
LoopIsolated(pos, results, files, finished, tr) ==
    /\ Len(results) = pos - 1
    /\ finished => Len(results) = Len(files)
    /\ \A i \in 1..Len(results) :
        /\ results[i].name = files[i]
        /\ results[i].outcome \in {"ok", "error"}
        /\ results[i].fate \in {"extract", "track", "fail"} => results[i].outcome = "error"
        /\ (tr /\ results[i].fate = "ok") => results[i].outcome = "ok"

\* C12 - batch failure isolation: an iteration of the loop, whether its flow
\* ends in success or raises in extract, setTrack, the translation or
\* package, goes on to the next selected archive, so that at the end every
\* selected archive has been processed once, in order, with an outcome that
\* follows from its own flow (a flow that raised ends in an error, a tracked
\* flow whose calls all succeed ends in success); it leaves the results
\* of the earlier iterations and the working trees and checkpoints of every
\* other archive as they were, and adds no file to the directory but its own
\* output.
C12_FailureIsolation ==
    [][ (bpc = "loop" /\ bi <= Len(epub_files)) =>
            /\ bi' = bi + 1
            /\ bpc' = IF bi' > Len(epub_files) THEN "finished" ELSE "loop"
            /\ LoopIsolated(bi', bresults', epub_files', bpc' = "finished", bopts.track)
            /\ SubSeq(bresults', 1, Len(bresults)) = bresults
            /\ \A n \in DOMAIN bfs : n # epub_files[bi] => bfs'[n] = bfs[n]
            /\ listing \subseteq listing'
            /\ listing' \ listing \subseteq {OutputNameOf(target_lang, epub_files[bi])} ]_vars

C12_LaterArchivePackaged ==
    /\ bpc = "finished"
    /\ Len(bresults) = 2
    /\ bresults[1].outcome = "error"
    /\ bresults[1].fate = "fail"
    /\ bresults[2].outcome = "ok"
    /\ FilesOf(bresults[1].name).ckpt.exists
====
